---- MODULE Spec2Model ----
(***************************************************************************)
(* Model of the PhantomHand Tauri shell (src/tauri_app/src-tauri/src/      *)
(* main.rs): the set-up hook, the sidecar launcher start_backend with the  *)
(* relay task it spawns, the two commands get_backend_status and           *)
(* restart_backend, and the system-tray handler.                           *)
(*                                                                         *)
(* The sidecar processes are the environment: each one puts Stdout,        *)
(* Stderr and Error events on its own channel and, when it exits, a final  *)
(* Terminated event, after which the channel is closed.  The text of a     *)
(* line or of an error is abstracted to the serial number the event has on *)
(* its channel.  println!/eprintln! output is not part of the state.       *)
(***************************************************************************)
EXTENDS Integers, Sequences, FiniteSets, TLC

VARIABLES
    appPhase,         \* "setup" | "setup_started" | "running" | "exited"
    backend_running,  \* AppState.backend_running (the value under the Mutex)
    mainWindow,       \* TRUE iff app.get_window("main") is Some
    windowState,      \* "Visible" | "Hidden"
    windowFocused,    \* TRUE iff the main window holds the input focus
    workers,          \* spawned sidecar processes, in spawn order
    chans,            \* the event channel of each spawned sidecar
    sent,             \* history: every event ever put on each channel
    relays,           \* the relay tasks spawned by start_backend
    notifications,    \* what emit_all has delivered to the UI boundary
    lockHeld,         \* TRUE iff a MutexGuard of backend_running is alive
    setupResult,      \* history: "Ok" or "Err", what start_backend returned to setup
    lastOp            \* the handler or command run last: its input and result

vars == <<appPhase, backend_running, mainWindow, windowState, windowFocused,
          workers, chans, sent, relays, notifications, lockHeld, setupResult,
          lastOp>>

backendVars == <<workers, chans, sent, relays, notifications>>
windowVars == <<mainWindow, windowState, windowFocused>>

\* Bounds of the model.
MaxWorkers == 2
MaxEvents == 2

\* The outcomes of Command::new_sidecar(..) and of .spawn().
SpawnOutcomes == {"ok", "sidecar_err", "spawn_err"}

\* The kinds of CommandEvent a running sidecar produces before it exits.
OutputKinds == {"Stdout", "Stderr", "Error"}

\* Menu item ids a MenuItemClick can carry: the three of create_tray_menu
\* and any other id.
MenuIds == {"show", "hide", "quit", "other"}

RECURSIVE SumLen(_)
SumLen(ss) == IF ss = <<>> THEN 0 ELSE Len(Head(ss)) + SumLen(Tail(ss))

\* Number of events put on all channels so far.
TotalSent == SumLen(sent)

Op(name, in, ret) == [op |-> name, in |-> in, ret |-> ret]

\* lastOp after a step of a relay task or of a sidecar.
Async == Op("async", "-", "-")

AppAlive == appPhase \in {"setup_started", "running"}

----------------------------------------------------------------------------
\* start_backend

\* The Result of start_backend for a spawn outcome.
StartResult(outcome) ==
    CASE outcome = "ok" -> "Ok"
      [] outcome = "sidecar_err" -> "Err:create_sidecar"
      [] outcome = "spawn_err" -> "Err:start_backend"

IsErr(ret) == ret \in {"Err:create_sidecar", "Err:start_backend"}

\* The relay task start_backend spawns: it owns the receiver rx.
NewRelay(rx) == [rx |-> rx, state |-> "waiting", recvd |-> <<>>]

\* Variant of start_backend: the channel and the relay task are set up before
\* the result of .spawn() is examined.
start_backend_relay_before_spawn(outcome) ==
    [ret |-> StartResult(outcome),
     workers |-> IF outcome = "ok"
                 THEN Append(workers, [proc |-> "running", tx |-> Len(chans) + 1])
                 ELSE workers,
     chans |-> IF outcome /= "sidecar_err"
               THEN Append(chans, [buf |-> <<>>, open |-> TRUE])
               ELSE chans,
     sent |-> IF outcome /= "sidecar_err" THEN Append(sent, <<>>) ELSE sent,
     relays |-> IF outcome /= "sidecar_err"
                THEN Append(relays, NewRelay(Len(chans) + 1))
                ELSE relays]

\* start_backend: the `?` returns the error before anything else is done;
\* otherwise a sidecar runs, its channel exists and one relay task owns rx.
\* The running flag is not touched here.
start_backend(outcome) ==
    IF outcome = "ok"
    THEN [ret |-> StartResult(outcome),
          workers |-> Append(workers, [proc |-> "running", tx |-> Len(chans) + 1]),
          chans |-> Append(chans, [buf |-> <<>>, open |-> TRUE]),
          sent |-> Append(sent, <<>>),
          relays |-> Append(relays, NewRelay(Len(chans) + 1))]
    ELSE [ret |-> StartResult(outcome),
          workers |-> workers,
          chans |-> chans,
          sent |-> sent,
          relays |-> relays]

CanSpawn(outcome) == outcome = "ok" => Len(workers) < MaxWorkers

ApplyStart(s) ==
    /\ workers' = s.workers
    /\ chans' = s.chans
    /\ sent' = s.sent
    /\ relays' = s.relays

----------------------------------------------------------------------------
\* main: the setup closure

\* The flag the setup closure stores after a successful start_backend.
SetupFlag == TRUE

\* Variant of GuardAfterStatement: the guard outlives the statement.
GuardAfterStatement_kept == TRUE

\* The Mutex after `*state.backend_running.lock().unwrap()` has been read or
\* assigned: the guard is a temporary, dropped at the end of the statement.
GuardAfterStatement == FALSE

\* Variant of PhaseAfterStart: a failed start ends the application.
PhaseAfterStart_exit_on_error(ret) ==
    IF IsErr(ret) THEN "exited" ELSE "setup_started"

\* The phase after start_backend has returned to the setup closure: on Err
\* it logs and goes on to Ok(()), on Ok the else branch is still to run.
PhaseAfterStart(ret) == IF IsErr(ret) THEN "running" ELSE "setup_started"

\* setup, first half: start_backend(&app.handle()).  On Err the closure only
\* logs and returns Ok(()), so the application runs without a backend.
SetupStart ==
    /\ appPhase = "setup"
    /\ \E outcome \in SpawnOutcomes :
         /\ CanSpawn(outcome)
         /\ LET s == start_backend(outcome) IN
              /\ ApplyStart(s)
              /\ appPhase' = PhaseAfterStart(s.ret)
              /\ setupResult' = (IF IsErr(s.ret) THEN "Err" ELSE "Ok")
              /\ lastOp' = Op(IF IsErr(s.ret) THEN "setup" ELSE "setup_spawn",
                              outcome, s.ret)
    /\ UNCHANGED <<backend_running, windowVars, notifications, lockHeld>>

\* setup, second half (the else branch): lock the Mutex and store true.
SetupSetRunning ==
    /\ appPhase = "setup_started"
    /\ ~lockHeld
    /\ backend_running' = SetupFlag
    /\ lockHeld' = GuardAfterStatement
    /\ appPhase' = "running"
    /\ lastOp' = Op("setup", "ok", "Ok")
    /\ UNCHANGED <<windowVars, backendVars, setupResult>>

----------------------------------------------------------------------------
\* Commands

BoolStr(b) == IF b THEN "true" ELSE "false"

\* get_backend_status: the value under the lock.
get_backend_status == backend_running

GetBackendStatus ==
    /\ appPhase = "running"
    /\ ~lockHeld
    /\ lockHeld' = GuardAfterStatement
    /\ lastOp' = Op("status", "-", BoolStr(get_backend_status))
    /\ UNCHANGED <<appPhase, backend_running, windowVars, backendVars,
                   setupResult>>

\* Variant of restart_backend: the old sidecars are stopped before the new
\* one is started.
restart_backend_stop_first(outcome) ==
    LET s == start_backend(outcome) IN
    [s EXCEPT !.ret = IF IsErr(s.ret) THEN s.ret ELSE "Ok:restarted",
              !.workers = [w \in DOMAIN s.workers |->
                             IF w \in DOMAIN workers
                             THEN [s.workers[w] EXCEPT !.proc = "exited"]
                             ELSE s.workers[w]]]

\* restart_backend: start_backend(&app_handle)? and then Ok("...").
restart_backend(outcome) ==
    LET s == start_backend(outcome) IN
    [s EXCEPT !.ret = IF IsErr(s.ret) THEN s.ret ELSE "Ok:restarted"]

\* Variant of FlagAfterRestart: a successful restart marks the backend running.
FlagAfterRestart_set_on_ok(ret) == IF IsErr(ret) THEN backend_running ELSE TRUE

\* The running flag after restart_backend: the command has no access to
\* AppState and does not write it.
FlagAfterRestart(ret) == backend_running

RestartBackend ==
    /\ appPhase = "running"
    /\ \E outcome \in SpawnOutcomes :
         /\ CanSpawn(outcome)
         /\ LET s == restart_backend(outcome) IN
              /\ ApplyStart(s)
              /\ backend_running' = FlagAfterRestart(s.ret)
              /\ lastOp' = Op("restart", outcome, s.ret)
    /\ UNCHANGED <<appPhase, windowVars, notifications, lockHeld, setupResult>>

----------------------------------------------------------------------------
\* The relay task of start_backend

\* Variant of Dispatch: every event is taken for the end of the sidecar.
Dispatch_stopped_on_output(r, ev) ==
    CASE ev.kind = "Error" ->
           <<[name |-> "backend-error", payload |-> ev.seq, from |-> r]>>
      [] OTHER ->
           <<[name |-> "backend-stopped", payload |-> 0, from |-> r]>>

\* Variant of Dispatch: the Error arm only logs.
Dispatch_error_logged_only(r, ev) ==
    CASE ev.kind = "Terminated" ->
           <<[name |-> "backend-stopped", payload |-> 0, from |-> r]>>
      [] OTHER -> <<>>

\* Variant of Dispatch: a Stderr line is reported as a backend error.
Dispatch_stderr_as_error(r, ev) ==
    CASE ev.kind \in {"Error", "Stderr"} ->
           <<[name |-> "backend-error", payload |-> ev.seq, from |-> r]>>
      [] ev.kind = "Terminated" ->
           <<[name |-> "backend-stopped", payload |-> 0, from |-> r]>>
      [] OTHER -> <<>>

\* What the match in the relay loop hands to emit_all for one event.
Dispatch(r, ev) ==
    CASE ev.kind = "Error" ->
           <<[name |-> "backend-error", payload |-> ev.seq, from |-> r]>>
      [] ev.kind = "Terminated" ->
           <<[name |-> "backend-stopped", payload |-> 0, from |-> r]>>
      [] OTHER -> <<>>

\* Variant of RecvIndex: the newest event is received first.
RecvIndex_newest(buf) == Len(buf)

\* rx.recv() on a channel that holds an event: the oldest one.
RecvIndex(buf) == 1

RemoveAt(s, i) == SubSeq(s, 1, i - 1) \o SubSeq(s, i + 1, Len(s))

\* Variant of RelayChannel: every relay listens to the first channel.
RelayChannel_first(r) == 1

\* The channel a relay receives from.
RelayChannel(r) == relays[r].rx

\* Variant of FlagAfterEvent: the Terminated arm clears the running flag.
FlagAfterEvent_clear_on_terminated(ev) ==
    IF ev.kind = "Terminated" THEN FALSE ELSE backend_running

\* The running flag after the relay has handled an event: no arm of the
\* match touches AppState.
FlagAfterEvent(ev) == backend_running

\* One iteration of `while let Some(event) = rx.recv().await`.
RelayRecv(r) ==
    /\ AppAlive
    /\ relays[r].state = "waiting"
    /\ LET c == RelayChannel(r)
           buf == chans[c].buf IN
         /\ buf /= <<>>
         /\ LET i == RecvIndex(buf)
                ev == buf[i] IN
              /\ chans' = [chans EXCEPT ![c].buf = RemoveAt(buf, i)]
              /\ relays' = [relays EXCEPT ![r].recvd = Append(@, ev)]
              /\ notifications' = notifications \o Dispatch(r, ev)
              /\ backend_running' = FlagAfterEvent(ev)
              /\ lastOp' = Async
    /\ UNCHANGED <<appPhase, windowVars, workers, sent, lockHeld, setupResult>>

\* Variant of RelayEnd: an empty channel is taken for a closed one.
RelayEnd_on_empty(r) ==
    /\ AppAlive
    /\ relays[r].state = "waiting"
    /\ chans[RelayChannel(r)].buf = <<>>
    /\ relays' = [relays EXCEPT ![r].state = "done"]
    /\ lastOp' = Async
    /\ UNCHANGED <<appPhase, backend_running, windowVars, workers, chans,
                   sent, notifications, lockHeld, setupResult>>

\* rx.recv() returns None: the channel is closed and empty; the task ends.
RelayEnd(r) ==
    /\ AppAlive
    /\ relays[r].state = "waiting"
    /\ chans[RelayChannel(r)].buf = <<>>
    /\ ~chans[RelayChannel(r)].open
    /\ relays' = [relays EXCEPT ![r].state = "done"]
    /\ lastOp' = Async
    /\ UNCHANGED <<appPhase, backend_running, windowVars, workers, chans,
                   sent, notifications, lockHeld, setupResult>>

----------------------------------------------------------------------------
\* The sidecar processes (environment)

Event(kind, w) == [kind |-> kind, seq |-> Len(sent[w]) + 1]

Send(w, ev) ==
    /\ chans' = [chans EXCEPT ![workers[w].tx].buf = Append(@, ev)]
    /\ sent' = [sent EXCEPT ![workers[w].tx] = Append(@, ev)]

\* A running sidecar writes a line or reports an error.
WorkerEmit(w) ==
    /\ AppAlive
    /\ workers[w].proc = "running"
    /\ TotalSent < MaxEvents
    /\ \E kind \in OutputKinds :
         /\ Send(w, Event(kind, w))
         /\ lastOp' = Async
    /\ UNCHANGED <<appPhase, backend_running, windowVars, workers, relays,
                   notifications, lockHeld, setupResult>>

\* A running sidecar exits: Terminated is the last event of its channel.
WorkerExit(w) ==
    /\ AppAlive
    /\ workers[w].proc = "running"
    /\ TotalSent < MaxEvents
    /\ LET ev == Event("Terminated", w) IN
         /\ chans' = [chans EXCEPT ![workers[w].tx] =
                        [buf |-> Append(@.buf, ev), open |-> FALSE]]
         /\ sent' = [sent EXCEPT ![workers[w].tx] = Append(@, ev)]
    /\ workers' = [workers EXCEPT ![w].proc = "exited"]
    /\ lastOp' = Async
    /\ UNCHANGED <<appPhase, backend_running, windowVars, relays,
                   notifications, lockHeld, setupResult>>

----------------------------------------------------------------------------
\* main: on_system_tray_event

\* window.show(); window.set_focus(); when the main window exists.
ShowWindow ==
    IF mainWindow
    THEN /\ windowState' = "Visible"
         /\ windowFocused' = TRUE
    ELSE UNCHANGED <<windowState, windowFocused>>

\* Variant of TrayLeftClick: the click toggles the window.
TrayLeftClick_toggle ==
    /\ appPhase = "running"
    /\ IF mainWindow /\ windowState = "Visible"
       THEN windowState' = "Hidden" /\ windowFocused' = FALSE
       ELSE ShowWindow
    /\ lastOp' = Op("leftclick", "-", "-")
    /\ UNCHANGED <<appPhase, backend_running, mainWindow, backendVars,
                   lockHeld, setupResult>>

\* SystemTrayEvent::LeftClick
TrayLeftClick ==
    /\ appPhase = "running"
    /\ ShowWindow
    /\ lastOp' = Op("leftclick", "-", "-")
    /\ UNCHANGED <<appPhase, backend_running, mainWindow, backendVars,
                   lockHeld, setupResult>>

\* Variant of HideWindow: the window only gives up the focus.
HideWindow_unfocus_only ==
    /\ windowFocused' = FALSE
    /\ UNCHANGED windowState

\* The "hide" arm: window.hide(); an invisible window holds no focus.
HideWindow ==
    IF mainWindow
    THEN /\ windowState' = "Hidden"
         /\ windowFocused' = FALSE
    ELSE UNCHANGED <<windowState, windowFocused>>

\* Variant of PhaseAfterMenu: "hide" leaves the application as "quit" does.
PhaseAfterMenu_hide_exits(id) ==
    IF id \in {"hide", "quit"} THEN "exited" ELSE appPhase

\* Variant of PhaseAfterMenu: the "quit" arm falls through to `_ => {}`.
PhaseAfterMenu_quit_ignored(id) == appPhase

\* The phase after the arm of a menu id has run: "quit" is
\* std::process::exit(0).
PhaseAfterMenu(id) == IF id = "quit" THEN "exited" ELSE appPhase

\* SystemTrayEvent::MenuItemClick { id, .. }
TrayMenuItemClick(id) ==
    /\ appPhase = "running"
    /\ CASE id = "show" -> ShowWindow
         [] id = "hide" -> HideWindow
         [] OTHER -> UNCHANGED <<windowState, windowFocused>>
    /\ appPhase' = PhaseAfterMenu(id)
    /\ lastOp' = Op("menu", id, "-")
    /\ UNCHANGED <<backend_running, mainWindow, backendVars, lockHeld,
                   setupResult>>

\* Any other SystemTrayEvent (right click, double click): the `_ => {}` arm.
TrayOtherEvent ==
    /\ appPhase = "running"
    /\ lastOp' = Op("tray_other", "-", "-")
    /\ UNCHANGED <<appPhase, backend_running, windowVars, backendVars,
                   lockHeld, setupResult>>

----------------------------------------------------------------------------

Init ==
    /\ appPhase = "setup"
    /\ backend_running = FALSE
    /\ mainWindow \in BOOLEAN
    /\ windowState = "Visible"
    /\ windowFocused = TRUE
    /\ workers = <<>>
    /\ chans = <<>>
    /\ sent = <<>>
    /\ relays = <<>>
    /\ notifications = <<>>
    /\ lockHeld = FALSE
    /\ setupResult = "-"
    /\ lastOp = Op("none", "-", "-")

Next ==
    \/ SetupStart
    \/ SetupSetRunning
    \/ GetBackendStatus
    \/ RestartBackend
    \/ \E r \in 1..Len(relays) : RelayRecv(r)
    \/ \E r \in 1..Len(relays) : RelayEnd(r)
    \/ \E w \in 1..Len(workers) : WorkerEmit(w)
    \/ \E w \in 1..Len(workers) : WorkerExit(w)
    \/ TrayLeftClick
    \/ \E id \in MenuIds : TrayMenuItemClick(id)
    \/ TrayOtherEvent

Spec == Init /\ [][Next]_vars

\* A step of relay task r.  The async runtime polls a task that is ready, so
\* a relay that can take a step is not left waiting forever.
RelayStep(r) == r \in DOMAIN relays /\ (RelayRecv(r) \/ RelayEnd(r))

FairSpec == Spec /\ \A r \in 1..MaxWorkers : WF_vars(RelayStep(r))

----------------------------------------------------------------------------
\* Vocabulary of the properties

IsStart(o) == o.op \in {"setup", "restart"}

\* relay r has received an event of this kind
Relayed(r, kind) == \E i \in DOMAIN relays[r].recvd : relays[r].recvd[i].kind = kind

\* positions of the notifications relay r has emitted under this name
NotifiedAt(r, name) ==
    {i \in DOMAIN notifications :
        notifications[i].from = r /\ notifications[i].name = name}

LiveWorkers == {w \in DOMAIN workers : workers[w].proc = "running"}

\* the notification a channel event stands for
NotificationOf(ev) ==
    IF ev.kind = "Error" THEN <<"backend-error", ev.seq>>
    ELSE <<"backend-stopped", 0>>

IsNotified(ev) == ev.kind \in {"Error", "Terminated"}

\* what relay r has delivered to the UI boundary, in delivery order
DeliveredBy(r) ==
    LET mine == SelectSeq(notifications, LAMBDA n : n.from = r) IN
    [i \in DOMAIN mine |-> <<mine[i].name, mine[i].payload>>]

\* the events of channel c that were put on it first, n of them, as the
\* notifications they stand for
NotifiableSent(c, n) ==
    LET evs == SelectSeq(SubSeq(sent[c], 1, n), IsNotified) IN
    [i \in DOMAIN evs |-> NotificationOf(evs[i])]

----------------------------------------------------------------------------
\* C1: after every successful start - at set-up or through restart_backend -
\* the running flag is true, so get_backend_status called next returns true.
C1_StatusTrueAfterStart ==
    (IsStart(lastOp) /\ ~IsErr(lastOp.ret)) => get_backend_status = TRUE

\* C2: outside the set-up hook, the running flag is true iff some spawned
\* worker has not yet had its Terminated event relayed.
C2_RunningIffLiveWorker ==
    appPhase \in {"running", "exited"} =>
        (backend_running <=> \E r \in DOMAIN relays : ~Relayed(r, "Terminated"))

\* C3: at most one spawned worker process is running at any time.
C3_AtMostOneActiveWorker == Cardinality(LiveWorkers) <= 1

\* C4: a start whose spawn fails returns an error and changes neither the
\* running flag nor the workers, channels, relays and notifications; the
\* flag is false when no worker was ever started.
C4_SpawnFailureKeepsState ==
    [][(IsStart(lastOp') /\ lastOp'.in /= "ok") =>
          /\ IsErr(lastOp'.ret)
          /\ backend_running' = backend_running
          /\ relays' = relays
          /\ UNCHANGED <<workers, chans, sent, notifications>>
          /\ (workers = <<>> => backend_running' = FALSE)]_vars

\* the set-up start has failed: no relay exists and the flag is false
C4_Witness ==
    /\ lastOp.op = "setup"
    /\ IsErr(lastOp.ret)
    /\ relays = <<>>
    /\ ~backend_running

\* C5: a restart whose spawn fails while an earlier worker is running returns
\* an error and leaves that worker running and its relay, its channel and
\* the notifications as they were; the relay is still waiting on the channel
\* and able to receive every event that is on it.
C5_FailedRestartKeepsWorker ==
    /\ [][(lastOp'.op = "restart" /\ lastOp'.in /= "ok") =>
             /\ IsErr(lastOp'.ret)
             /\ UNCHANGED <<workers, chans, relays, sent, notifications>>]_vars
    /\ []((lastOp.op = "restart" /\ IsErr(lastOp.ret)) =>
            \A r \in DOMAIN relays :
               /\ workers[r].proc = "running" => relays[r].state = "waiting"
               /\ chans[relays[r].rx].buf /= <<>> => ENABLED RelayRecv(r))

\* a restart has just failed while a worker runs with an event pending
C5_Witness ==
    /\ lastOp.op = "restart"
    /\ IsErr(lastOp.ret)
    /\ \E r \in DOMAIN relays :
         /\ workers[r].proc = "running"
         /\ relays[r].state = "waiting"
         /\ chans[relays[r].rx].buf /= <<>>

\* C6: there is exactly one relay per spawned worker, it owns that worker's
\* channel, and what it has received followed by what is still on the
\* channel is exactly what the worker put on it.
C6_OneRelayPerWorker ==
    /\ Len(relays) = Len(workers)
    /\ \A r \in DOMAIN relays :
         /\ relays[r].rx = workers[r].tx
         /\ \A q \in DOMAIN relays : relays[q].rx = relays[r].rx => q = r
         /\ relays[r].recvd \o chans[relays[r].rx].buf = sent[workers[r].tx]

\* two relays are running and each has received an event of its own worker
C6_Witness ==
    \E r, q \in DOMAIN relays :
        /\ r /= q
        /\ relays[r].state = "waiting" /\ relays[q].state = "waiting"
        /\ relays[r].recvd /= <<>> /\ relays[q].recvd /= <<>>

\* C7: the notifications a relay has delivered are, in order, those of the
\* Error and Terminated events among the first events of its worker's
\* channel, as many as it has received.
C7_NotificationsInChannelOrder ==
    \A r \in DOMAIN relays :
        DeliveredBy(r) = NotifiableSent(workers[r].tx, Len(relays[r].recvd))

\* a relay has delivered two notifications of one worker
C7_Witness == \E r \in DOMAIN relays : Len(DeliveredBy(r)) >= 2

C9_HideKeepsBackend ==
    [][(lastOp'.op = "menu" /\ lastOp'.in = "hide") =>
          /\ backend_running' = backend_running
          /\ appPhase' = appPhase
          /\ UNCHANGED backendVars
          /\ (mainWindow => windowState' = "Hidden")]_vars

\* the window was hidden while a worker runs and status() is true
C9_Witness ==
    /\ lastOp.op = "menu" /\ lastOp.in = "hide"
    /\ windowState = "Hidden"
    /\ backend_running
    /\ LiveWorkers /= {}
    /\ \E r \in DOMAIN relays : relays[r].state = "waiting"

\* C10: quit is possible in every state of the running application and ends
\* it at once; after it nothing changes any more, so no further notification
\* is delivered.
C10_QuitEndsEverything ==
    /\ [](appPhase = "running" => ENABLED TrayMenuItemClick("quit"))
    /\ [][/\ (lastOp'.op = "menu" /\ lastOp'.in = "quit") => appPhase' = "exited"
          /\ appPhase = "exited" => UNCHANGED vars]_vars

\* the application has quit while a live worker's event was still on its
\* channel and no backend-stopped was delivered for that worker
C10_Witness ==
    /\ appPhase = "exited"
    /\ \E r \in DOMAIN relays :
         /\ chans[relays[r].rx].buf /= <<>>
         /\ NotifiedAt(r, "backend-stopped") = {}

\* a step in which relay r receives an event of this kind
Receives(r, kind) ==
    /\ r \in DOMAIN relays
    /\ Len(relays'[r].recvd) = Len(relays[r].recvd) + 1
    /\ relays'[r].recvd[Len(relays'[r].recvd)].kind = kind

\* C11: the application leaves the running state only through the quit menu
\* item: no failed start, no worker event and no relay step ends it, and
\* after a failed set-up start it runs without a backend, status() false.
C11_OnlyQuitTerminates ==
    /\ [][(appPhase' = "exited" /\ appPhase /= "exited") =>
             (lastOp'.op = "menu" /\ lastOp'.in = "quit")]_vars
    /\ []((lastOp.op = "setup" /\ IsErr(lastOp.ret)) =>
             (appPhase = "running" /\ get_backend_status = FALSE))

\* set-up failed, a restart failed too, and the application still runs
C11_Witness ==
    /\ setupResult = "Err"
    /\ lastOp.op = "restart"
    /\ IsErr(lastOp.ret)
    /\ appPhase = "running"
    /\ ~backend_running

\* C12: a step in which a relay receives an Error event appends exactly one
\* backend-error notification carrying that event's description and leaves
\* the running flag, the application phase, the workers, the window and the
\* relay's waiting state as they were.
C12_ErrorOnlyNotifies ==
    [][\A r \in DOMAIN relays :
         Receives(r, "Error") =>
           /\ notifications' = Append(notifications,
                 [name |-> "backend-error",
                  payload |-> relays'[r].recvd[Len(relays'[r].recvd)].seq,
                  from |-> r])
           /\ backend_running' = backend_running
           /\ appPhase' = appPhase
           /\ relays'[r].state = "waiting"
           /\ UNCHANGED <<workers, windowVars, sent, lockHeld>>]_vars

\* a relay has delivered a backend-error and is still waiting on its channel
\* while the application runs
C12_Witness ==
    \E r \in DOMAIN relays :
        /\ Relayed(r, "Error")
        /\ NotifiedAt(r, "backend-error") /= {}
        /\ relays[r].state = "waiting"
        /\ appPhase = "running"

ChannelClosed(r) == ~chans[relays[r].rx].open

\* C13: a relay has ended only if its channel is closed and empty; a relay
\* that has ended stays ended and receives nothing more; the set of relays
\* grows only by one relay per successful start; and, the relay tasks being
\* scheduled fairly, again and again every relay whose channel is closed has
\* ended (unless the application has quit).
C13_RelayEndsIffChannelClosed ==
    /\ [](\A r \in DOMAIN relays :
            relays[r].state = "done" =>
               (ChannelClosed(r) /\ chans[relays[r].rx].buf = <<>>))
    /\ [][/\ \A r \in DOMAIN relays :
               relays[r].state = "done" => relays'[r] = relays[r]
          /\ Len(relays') /= Len(relays) =>
               /\ Len(relays') = Len(relays) + 1
               /\ lastOp'.op \in {"setup_spawn", "restart"}
               /\ lastOp'.in = "ok"]_vars
    /\ []<>(\/ appPhase = "exited"
            \/ \A r \in DOMAIN relays :
                  ChannelClosed(r) => relays[r].state = "done")

\* one relay has ended after its worker exited while the relay of a worker
\* started by a later restart is still waiting on its open channel
C13_Witness ==
    \E r, q \in DOMAIN relays :
        /\ r < q
        /\ relays[r].state = "done"
        /\ Relayed(r, "Terminated")
        /\ relays[q].state = "waiting"
        /\ ~ChannelClosed(q)

\* C14: between any two steps no guard of the running flag is alive, so no
\* relay waiting on its channel holds the lock; get_backend_status can run
\* in every state of the running application, the set-up hook can always
\* store the flag, and the live application always has a step to take.
C14_LockNeverBlocks ==
    /\ lockHeld = FALSE
    /\ appPhase = "running" => ENABLED GetBackendStatus
    /\ appPhase = "setup_started" => ENABLED SetupSetRunning
    /\ appPhase /= "exited" => ENABLED Next

\* status() has just returned while two relays wait on their channels
C14_Witness ==
    /\ lastOp.op = "status"
    /\ \E r, q \in DOMAIN relays :
         /\ r /= q
         /\ relays[r].state = "waiting"
         /\ relays[q].state = "waiting"

\* C15: the running flag changes only in the set-up hook, from false to
\* true, and is never cleared: once true it is true in every later state,
\* also after Terminated has been relayed and backend-stopped emitted.
C15_FlagNeverCleared ==
    [][/\ backend_running => backend_running'
       /\ backend_running' /= backend_running =>
            (appPhase = "setup_started" /\ lastOp'.op = "setup")]_vars

\* status() has returned true after the only worker's Terminated event was
\* relayed and backend-stopped was emitted
C15_Witness ==
    /\ lastOp.op = "status"
    /\ lastOp.ret = "true"
    /\ LiveWorkers = {}
    /\ \A r \in DOMAIN relays :
         Relayed(r, "Terminated") /\ NotifiedAt(r, "backend-stopped") /= {}

\* C16: a successful restart adds one running worker with its own channel
\* and one waiting relay and leaves every earlier worker, channel and relay
\* as it was; and a step of one relay takes the oldest event of its own
\* channel and changes no other relay and no other channel.
C16_RestartAddsWorker ==
    [][/\ (lastOp'.op = "restart" /\ lastOp'.in = "ok") =>
            /\ Len(workers') = Len(workers) + 1
            /\ Len(relays') = Len(relays) + 1
            /\ Len(chans') = Len(chans) + 1
            /\ \A w \in DOMAIN workers :
                  /\ workers'[w] = workers[w]
                  /\ relays'[w] = relays[w]
                  /\ chans'[w] = chans[w]
            /\ workers'[Len(workers')].proc = "running"
            /\ relays'[Len(relays')] =
                  [rx |-> workers'[Len(workers')].tx, state |-> "waiting",
                   recvd |-> <<>>]
       /\ \A r \in DOMAIN relays :
            Len(relays'[r].recvd) > Len(relays[r].recvd) =>
               /\ chans[relays[r].rx].buf /= <<>>
               /\ relays'[r].recvd =
                     Append(relays[r].recvd, Head(chans[relays[r].rx].buf))
               /\ chans'[relays[r].rx].buf = Tail(chans[relays[r].rx].buf)
               /\ \A q \in DOMAIN relays : q /= r =>
                     /\ relays'[q] = relays[q]
                     /\ chans'[relays[q].rx] = chans[relays[q].rx]]_vars

\* a restart has just succeeded while the first worker still runs and its
\* relay, which has already received an event, still waits
C16_Witness ==
    /\ lastOp.op = "restart"
    /\ lastOp.in = "ok"
    /\ Len(workers) = 2
    /\ LiveWorkers = {1, 2}
    /\ relays[1].recvd /= <<>>
    /\ relays[1].state = "waiting"
    /\ relays[2].state = "waiting"

IsShowStep(o) == o.op = "leftclick" \/ (o.op = "menu" /\ o.in = "show")

IsHideStep(o) == o.op = "menu" /\ o.in = "hide"

\* C17: the window state starts as Visible and is always Visible or Hidden;
\* with the main window present a show action (the show item or the tray
\* left click) leaves it Visible and the hide item leaves it Hidden, from
\* either state; no other step changes the window state.
C17_WindowStateMachine ==
    /\ windowState = "Visible"
    /\ [](windowState \in {"Visible", "Hidden"})
    /\ [][/\ (mainWindow /\ IsShowStep(lastOp')) => windowState' = "Visible"
          /\ (mainWindow /\ IsHideStep(lastOp')) => windowState' = "Hidden"
          /\ windowState' /= windowState =>
               (IsShowStep(lastOp') \/ IsHideStep(lastOp'))
          /\ mainWindow' = mainWindow]_vars

\* the show item has been used on the present window while a relay has
\* already received events
C17_Witness ==
    /\ lastOp.op = "menu"
    /\ lastOp.in = "show"
    /\ windowState = "Visible"
    /\ mainWindow
    /\ \E r \in DOMAIN relays : relays[r].recvd /= <<>>

\* C18: the tray left click and the show menu item are possible in the same
\* states and have the same effect: with the main window present it is
\* Visible and focused afterwards, without it the window variables are
\* unchanged, and in both cases nothing else changes.
C18_LeftClickIsShow ==
    /\ [](appPhase = "running" =>
            (ENABLED TrayLeftClick /\ ENABLED TrayMenuItemClick("show")))
    /\ [](appPhase /= "running" =>
            (~ENABLED TrayLeftClick /\ ~ENABLED TrayMenuItemClick("show")))
    /\ [][IsShowStep(lastOp') =>
            /\ mainWindow => (windowState' = "Visible" /\ windowFocused' = TRUE)
            /\ ~mainWindow => UNCHANGED <<windowState, windowFocused>>
            /\ UNCHANGED <<appPhase, backend_running, mainWindow, backendVars,
                           lockHeld, setupResult>>]_vars

\* a left click has left the present window visible and focused while the
\* backend is marked running
C18_Witness ==
    /\ lastOp.op = "leftclick"
    /\ mainWindow
    /\ windowState = "Visible"
    /\ windowFocused
    /\ backend_running

\* C19: a step in which a relay receives a Stdout or a Stderr line emits no
\* notification and leaves the running flag, the application phase, the
\* window, the workers and every relay's waiting state unchanged.
C19_OutputLinesChangeNothing ==
    [][\A r \in DOMAIN relays :
         (Receives(r, "Stdout") \/ Receives(r, "Stderr")) =>
            /\ notifications' = notifications
            /\ backend_running' = backend_running
            /\ appPhase' = appPhase
            /\ UNCHANGED <<windowVars, workers, sent, lockHeld>>
            /\ Len(relays') = Len(relays)
            /\ \A q \in DOMAIN relays :
                  /\ relays'[q].state = relays[q].state
                  /\ relays'[q].rx = relays[q].rx]_vars

\* a relay has received a Stdout and a Stderr line and nothing was notified
C19_Witness ==
    \E r \in DOMAIN relays :
        /\ Relayed(r, "Stdout")
        /\ Relayed(r, "Stderr")
        /\ notifications = <<>>

\* C20: a restart step never changes the running flag; the flag changes at
\* most once, from false to true in the set-up hook; so once set-up is over
\* the flag, and every value get_backend_status returns, is true exactly
\* when the set-up start succeeded, whatever restarts followed.
C20_StatusIsSetupOutcome ==
    /\ [][/\ lastOp'.op = "restart" => backend_running' = backend_running
          /\ backend_running' /= backend_running =>
               (~backend_running /\ lastOp'.op = "setup")]_vars
    /\ [](appPhase \in {"running", "exited"} =>
            (backend_running <=> setupResult = "Ok"))
    /\ [](lastOp.op = "status" =>
            lastOp.ret = BoolStr(setupResult = "Ok"))

\* set-up failed, a restart started a worker, and status() returned false
C20_Witness ==
    /\ setupResult = "Err"
    /\ lastOp.op = "status"
    /\ lastOp.ret = "false"
    /\ LiveWorkers /= {}

====
